---- MODULE Spec2Model ----
(***************************************************************************)
(* Model of the GUPay SDK client (src/src/main.ts): construction of a      *)
(* client, the four public charge methods, the private createCharge       *)
(* helper with its error translation, and the transport that settles      *)
(* each POST.  JavaScript values whose type can vary at run time (a        *)
(* response body, the members of an error body, the optional baseUrl) are  *)
(* tagged records, so that truthiness, optional chaining and the string    *)
(* conversion done by Error are computed, not assumed.                     *)
(***************************************************************************)
EXTENDS Bags, FiniteSets, Integers, Naturals, Sequences, TLC

VARIABLES
    sdk,          \* client id -> the GUPaySDK object, or NotConstructed
    config,       \* client id -> the GUPayConfig its constructor received
    invocations,  \* client id -> number of public charge methods called on it
    posts,        \* client id -> number of requests its axios instance issued
    inflight,     \* bag of requests the transport has not yet settled
    ready,        \* bag of transport results whose awaiting call has not resumed
    settled       \* bag of finished calls: transport result and call outcome

vars == <<sdk, config, invocations, posts, inflight, ready, settled>>

(***************************************************************************)
(* Bounds of the model.                                                    *)
(***************************************************************************)
MaxCalls == 2

Clients == {"c1", "c2"}

(***************************************************************************)
(* JavaScript values.                                                      *)
(***************************************************************************)
JSUndefined == [t |-> "undefined"]
JSNull == [t |-> "null"]
JSString(s) == [t |-> "string", str |-> s]
JSObject(f) == [t |-> "object", props |-> f]

\* ToBoolean, as applied by `||` (line 147) and by `if (...)` (line 169).
Truthy(v) ==
    CASE v.t = "undefined" -> FALSE
      [] v.t = "null" -> FALSE
      [] v.t = "string" -> v.str # ""
      [] OTHER -> TRUE

\* v?.k and, for a v that is neither null nor undefined, v.k: a property
\* that is not there reads as undefined; a string has no such own property.
Get(v, k) ==
    IF v.t = "object" /\ k \in DOMAIN v.props THEN v.props[k] ELSE JSUndefined

\* An abrupt completion: the evaluation throws e instead of giving a value.
Throw(e) == [abrupt |-> "throw", error |-> e]
IsAbrupt(c) == "abrupt" \in DOMAIN c

\* What ToString throws for an object it cannot convert.
TypeErrorToPrimitive ==
    [name |-> "TypeError",
     message |-> JSString("Cannot convert object to primitive value")]

\* ToString, as applied by the Error constructor to a message that is not
\* undefined.  An object parsed from JSON converts through
\* Object.prototype.toString unless it has a toString property of its own:
\* that property is no function, the inherited valueOf gives the object back
\* (an own valueOf is no function either), and the conversion throws.
JSToString(v) ==
    CASE v.t = "string" -> v
      [] v.t = "null" -> JSString("null")
      [] v.t = "undefined" -> JSString("undefined")
      [] v.t = "object" /\ "toString" \in DOMAIN v.props -> Throw(TypeErrorToPrimitive)
      [] OTHER -> JSString("[object Object]")

\* { ...b, ...a }: the keys of both, a's value where both have the key.
SpreadKeepFirst(a, b) ==
    [k \in (DOMAIN a) \cup (DOMAIN b) |-> IF k \in DOMAIN a THEN a[k] ELSE b[k]]

\* { ...a, ...b }: the keys of both, b's value where both have the key.
Spread(a, b) ==
    [k \in (DOMAIN a) \cup (DOMAIN b) |-> IF k \in DOMAIN b THEN b[k] ELSE a[k]]

(***************************************************************************)
(* Errors.                                                                 *)
(***************************************************************************)
\* super(message): the message is converted to a string, and is the empty
\* string inherited from Error.prototype when undefined is passed.  The
\* conversion may throw.
ErrorMessage(message) ==
    IF message = JSUndefined THEN JSString("") ELSE JSToString(message)

GUPayAPIErrorSwapped(code, message, type) ==
    LET converted == ErrorMessage(message)
    IN  IF IsAbrupt(converted)
        THEN converted
        ELSE [name |-> "GUPayAPIError", code |-> type,
              message |-> converted, type |-> code]

\* new GUPayAPIError(code, message, type): the error object, or what
\* super(message) throws.
GUPayAPIError(code, message, type) ==
    LET converted == ErrorMessage(message)
    IN  IF IsAbrupt(converted)
        THEN converted
        ELSE [name |-> "GUPayAPIError", code |-> code,
              message |-> converted, type |-> type]

UnexpectedError ==
    [name |-> "Error",
     message |-> JSString("An unexpected error occurred while creating the charge")]

(***************************************************************************)
(* Construction.                                                           *)
(***************************************************************************)
NotConstructed == [constructed |-> FALSE]

BaseURLAlwaysDefault(cfg) == "https://api.gupay.co"

\* config.baseUrl || 'https://api.gupay.co'
BaseURL(cfg) ==
    IF Truthy(cfg.baseUrl) THEN cfg.baseUrl.str ELSE "https://api.gupay.co"

AuthorizationEncoded(apiKey) == "Basic base64(" \o apiKey \o ":)"

\* `Basic ${this.apiKey}`
Authorization(apiKey) == "Basic " \o apiKey

\* axios.create({ baseURL, headers })
AxiosCreate(cfg) ==
    [baseURL |-> BaseURL(cfg),
     headers |-> ("Authorization" :> Authorization(cfg.apiKey))
                 @@ ("Content-Type" :> "application/json")]

GUPaySDK(cfg) ==
    [constructed |-> TRUE,
     apiKey |-> cfg.apiKey,
     serviceId |-> cfg.serviceId,
     client |-> AxiosCreate(cfg)]

(***************************************************************************)
(* createCharge: the part before the await issues the request, the part    *)
(* after it translates the transport's result into the call's outcome.     *)
(***************************************************************************)
\* this.client.post(url, data): the instance's defaults plus url and body.
Post(client, url, data) ==
    [method |-> "POST", baseURL |-> client.baseURL, url |-> url,
     headers |-> client.headers, data |-> data]

createChargeRetrying(self, payload) ==
    << Post(self.client, "/v1/charges", payload),
       Post(self.client, "/v1/charges", payload) >>

\* The requests createCharge issues, in order.
createCharge(self, payload) ==
    << Post(self.client, "/v1/charges", payload) >>

\* The catch branch.  An error thrown while the GUPayAPIError is constructed
\* leaves the catch block in place of the GUPayAPIError.
createChargeCatch(error) ==
    LET gupayError == Get(error.response, "data")
        inner == Get(gupayError, "error")
        created == GUPayAPIError(Get(inner, "code"), Get(inner, "message"),
                                 Get(inner, "type"))
    IN  IF error.isAxiosError /\ Truthy(inner)
        THEN [kind |-> "throw",
              error |-> IF IsAbrupt(created) THEN created.error ELSE created]
        ELSE [kind |-> "throw", error |-> UnexpectedError]

\* What the try block throws when `response.data` is read from a response
\* that is undefined or null: a TypeError, which is no axios error.
ReadOfMissingResponse ==
    [settle |-> "reject", isAxiosError |-> FALSE, response |-> JSUndefined]

\* A continuation that treats a 2xx body holding an error member as a failure.
createChargeSettledStrict(result) ==
    IF result.settle = "resolve" /\ ~Truthy(Get(Get(result.response, "data"), "error"))
    THEN [kind |-> "return", value |-> Get(result.response, "data")]
    ELSE createChargeCatch([result EXCEPT !.isAxiosError = TRUE])

\* A continuation that answers from the last finished call when there is one.
createChargeSettledCached(result) ==
    IF settled # EmptyBag
    THEN (CHOOSE s \in BagToSet(settled) : TRUE).outcome
    ELSE IF result.settle = "resolve"
    THEN IF result.response.t \in {"undefined", "null"}
         THEN createChargeCatch(ReadOfMissingResponse)
         ELSE [kind |-> "return", value |-> Get(result.response, "data")]
    ELSE createChargeCatch(result)

\* The continuation of createCharge once the POST has settled.  `response.data`
\* is a plain member access inside the try block: on a response that is
\* undefined or null it throws, and the catch branch handles that error.
createChargeSettled(result) ==
    IF result.settle = "resolve"
    THEN IF result.response.t \in {"undefined", "null"}
         THEN createChargeCatch(ReadOfMissingResponse)
         ELSE [kind |-> "return", value |-> Get(result.response, "data")]
    ELSE createChargeCatch(result)

(***************************************************************************)
(* The public charge methods: each returns the requests it issues.         *)
(***************************************************************************)
createTrueMoneyWalletCharge(self, data) ==
    createCharge(self,
        Spread([type |-> "truemoneywallet", service_id |-> self.serviceId], data))

createTrueMoneyCashcardCharge(self, data) ==
    createCharge(self,
        Spread([type |-> "truemoneycashcard", service_id |-> self.serviceId], data))

createInternetBankingCharge(self, bankType, data) ==
    createCharge(self,
        Spread([type |-> bankType, service_id |-> self.serviceId], data))

createPromptpayCharge(self, data) ==
    createCharge(self,
        Spread([type |-> "promptpay", service_id |-> self.serviceId], data))

(***************************************************************************)
(* Inputs.                                                                 *)
(***************************************************************************)
Configs ==
    { [apiKey |-> "sk_live_A", serviceId |-> "svc_A", baseUrl |-> JSUndefined],
      [apiKey |-> "sk_test_B", serviceId |-> "svc_B",
       baseUrl |-> JSString("https://sandbox.gupay.co")],
      [apiKey |-> "sk_test_C", serviceId |-> "svc_C", baseUrl |-> JSString("")] }

InternetBankingType == {"scb", "ktb", "kbank", "bbl"}

Operations ==
    { [method |-> m, bankType |-> "none"] :
        m \in {"createTrueMoneyWalletCharge", "createTrueMoneyCashcardCharge",
               "createPromptpayCharge"} }
    \cup { [method |-> "createInternetBankingCharge", bankType |-> b] :
             b \in InternetBankingType }

ChargeRequestBase ==
    [amount |-> 100, currency |-> "THB", description |-> "Test charge",
     reference_id |-> "unique_reference_id", customer_id |-> "customer_123",
     flow |-> "redirect"]

\* A request as the typed interface describes it, and one that also carries
\* the optional return_url and the two keys the methods themselves set.
Requests ==
    { ChargeRequestBase,
      Spread(ChargeRequestBase,
             [return_url |-> "https://your-domain.com/return",
              type |-> "promptpay", service_id |-> "svc_other"]) }

ChargeResponse ==
    JSObject([id |-> JSString("ch_1"), status |-> JSString("pending"),
              type |-> JSString("promptpay")])

StructuredError(code, message, type) ==
    JSObject([error |-> JSObject([code |-> JSString(code),
                                  message |-> JSString(message),
                                  type |-> JSString(type)])])

Response(status, data) == JSObject([status |-> status, data |-> data])

\* What awaiting this.client.post can produce.
TransportResults ==
    { [settle |-> "resolve", isAxiosError |-> FALSE,
       response |-> Response(200, ChargeResponse)],
      [settle |-> "resolve", isAxiosError |-> FALSE,
       response |-> Response(201, StructuredError("late", "", "api_error"))],
      [settle |-> "reject", isAxiosError |-> TRUE,
       response |-> Response(402, StructuredError("insufficient_fund",
                                     "Insufficient fund", "api_error"))],
      [settle |-> "reject", isAxiosError |-> TRUE,
       response |-> Response(500, StructuredError("internal_error", "", "server_error"))],
      [settle |-> "reject", isAxiosError |-> TRUE,
       response |-> Response(500, JSString("<html>Internal Server Error</html>"))],
      [settle |-> "reject", isAxiosError |-> TRUE,
       response |-> Response(500, JSObject([error |-> JSString("Internal Server Error")]))],
      [settle |-> "reject", isAxiosError |-> TRUE,
       response |-> Response(400, JSObject([error |-> JSObject([code |-> JSString("bad_request")])]))],
      [settle |-> "reject", isAxiosError |-> TRUE,
       response |-> Response(400, JSObject([error |-> JSObject(
           [code |-> JSString("c"),
            message |-> JSObject([toString |-> JSString("x")]),
            type |-> JSString("t")])]))],
      [settle |-> "reject", isAxiosError |-> TRUE,
       response |-> Response(502, JSObject([message |-> JSString("Bad Gateway")]))],
      [settle |-> "reject", isAxiosError |-> TRUE, response |-> JSUndefined],
      [settle |-> "reject", isAxiosError |-> FALSE, response |-> JSUndefined] }

(***************************************************************************)
(* The state machine.                                                      *)
(***************************************************************************)
Init ==
    /\ sdk = [c \in Clients |-> NotConstructed]
    /\ config = [c \in Clients |-> NotConstructed]
    /\ invocations = [c \in Clients |-> 0]
    /\ posts = [c \in Clients |-> 0]
    /\ inflight = EmptyBag
    /\ ready = EmptyBag
    /\ settled = EmptyBag

Started ==
    BagCardinality(inflight) + BagCardinality(ready) + BagCardinality(settled)

\* What the called method issues.
Dispatch(self, op, data) ==
    CASE op.method = "createTrueMoneyWalletCharge" ->
            createTrueMoneyWalletCharge(self, data)
      [] op.method = "createTrueMoneyCashcardCharge" ->
            createTrueMoneyCashcardCharge(self, data)
      [] op.method = "createInternetBankingCharge" ->
            createInternetBankingCharge(self, op.bankType, data)
      [] op.method = "createPromptpayCharge" ->
            createPromptpayCharge(self, data)

\* new GUPaySDK(cfg)
Construct(c, cfg) ==
    /\ ~sdk[c].constructed
    /\ sdk' = [sdk EXCEPT ![c] = GUPaySDK(cfg)]
    /\ config' = [config EXCEPT ![c] = cfg]
    /\ UNCHANGED <<invocations, posts, inflight, ready, settled>>

\* A public charge method is called: it runs up to the await in createCharge.
Invoke(c, op, data) ==
    /\ sdk[c].constructed
    /\ Started < MaxCalls
    /\ LET issued == Dispatch(sdk[c], op, data)
       IN  /\ inflight' = inflight (+) SetToBag(
                  { [client |-> c, op |-> op, data |-> data, request |-> issued[i]] :
                      i \in DOMAIN issued })
           /\ posts' = [posts EXCEPT ![c] = @ + Len(issued)]
    /\ invocations' = [invocations EXCEPT ![c] = @ + 1]
    /\ UNCHANGED <<sdk, config, ready, settled>>

\* The transport settles one request in flight.
Transport(m, result) ==
    /\ BagIn(m, inflight)
    /\ inflight' = inflight (-) SetToBag({m})
    /\ ready' = ready (+) SetToBag({result})
    /\ UNCHANGED <<sdk, config, invocations, posts, settled>>

\* The awaiting createCharge resumes with the result of its request.
Resume(result) ==
    /\ BagIn(result, ready)
    /\ ready' = ready (-) SetToBag({result})
    /\ settled' = settled (+) SetToBag(
           { [result |-> result, outcome |-> createChargeSettled(result)] })
    /\ UNCHANGED <<sdk, config, invocations, posts, inflight>>

Next ==
    \/ \E c \in Clients, cfg \in Configs : Construct(c, cfg)
    \/ \E c \in Clients, op \in Operations, data \in Requests : Invoke(c, op, data)
    \/ \E m \in BagToSet(inflight), result \in TransportResults : Transport(m, result)
    \/ \E result \in BagToSet(ready) : Resume(result)

Spec == Init /\ [][Next]_vars

(***************************************************************************)
(* Properties.                                                             *)
(***************************************************************************)
InFlight == BagToSet(inflight)
Settled == BagToSet(settled)

\* The body of a result has the provider's shape {error: {code, message, type}}.
HasStructuredShape(result) ==
    LET inner == Get(Get(result.response, "data"), "error")
    IN  /\ inner.t = "object"
        /\ \A f \in {"code", "message", "type"} : Get(inner, f).t = "string"

\* C1: every submitted payload has type equal to the fixed discriminator of
\* the operation called (the bank code for internet banking) and service_id
\* equal to the service identifier the client was constructed with, whatever
\* keys the request carries.
C1_FixedDiscriminatorAndServiceId ==
    \A m \in InFlight :
        LET discriminator ==
                CASE m.op.method = "createTrueMoneyWalletCharge" -> "truemoneywallet"
                  [] m.op.method = "createTrueMoneyCashcardCharge" -> "truemoneycashcard"
                  [] m.op.method = "createPromptpayCharge" -> "promptpay"
                  [] m.op.method = "createInternetBankingCharge" -> m.op.bankType
        IN  /\ m.request.data["type"] = discriminator
            /\ m.request.data["service_id"] = config[m.client].serviceId

\* C2: the key set of every submitted payload is the request's key set plus
\* type and service_id, and every key of the request keeps the caller's value.
C2_PayloadKeepsRequestFields ==
    \A m \in InFlight :
        /\ DOMAIN m.request.data = (DOMAIN m.data) \cup {"type", "service_id"}
        /\ \A k \in DOMAIN m.data : m.request.data[k] = m.data[k]

\* A wallet charge whose request carries its own type key is in flight, and
\* the payload holds the caller's value for it.
C2_Witness ==
    \E m \in InFlight :
        /\ m.op.method = "createTrueMoneyWalletCharge"
        /\ "type" \in DOMAIN m.data
        /\ "return_url" \in DOMAIN m.request.data
        /\ m.request.data["type"] = "promptpay"

\* C3: a call that failed with a body of the structured shape threw a
\* GUPayAPIError whose code, message and type are the three values of the body.
C3_ProviderErrorCarriesBodyFields ==
    \A s \in Settled :
        (s.result.settle = "reject" /\ HasStructuredShape(s.result)) =>
            LET inner == s.result.response.props.data.props.error.props
            IN  /\ s.outcome.kind = "throw"
                /\ s.outcome.error.name = "GUPayAPIError"
                /\ s.outcome.error.code = inner.code
                /\ s.outcome.error.message = inner.message
                /\ s.outcome.error.type = inner.type

\* The 402 insufficient_fund response has been translated.
C3_Witness ==
    \E s \in Settled :
        /\ s.result.settle = "reject"
        /\ HasStructuredShape(s.result)
        /\ s.result.response.props.status = 402
        /\ s.outcome.error.code = JSString("insufficient_fund")
        /\ s.outcome.error.type = JSString("api_error")

\* C4: a call that failed without a body of the full structured shape threw
\* the generic error with the fixed message, which has no code or type, and
\* never a GUPayAPIError.
C4_UnstructuredFailureIsGeneric ==
    \A s \in Settled :
        (s.result.settle = "reject" /\ ~HasStructuredShape(s.result)) =>
            /\ s.outcome.kind = "throw"
            /\ s.outcome.error.name = "Error"
            /\ s.outcome.error.message =
                   JSString("An unexpected error occurred while creating the charge")
            /\ DOMAIN s.outcome.error = {"name", "message"}

\* C5: a call whose POST completed with a 2xx status returned the body it
\* received, whatever the body holds, and threw nothing.
C5_SuccessReturnsBodyUnchanged ==
    \A s \in Settled :
        s.result.settle = "resolve" =>
            /\ s.outcome.kind = "return"
            /\ s.outcome.value = s.result.response.props.data

\* A 2xx body that itself looks like a provider error has been returned.
C5_Witness ==
    \E s \in Settled :
        /\ s.result.settle = "resolve"
        /\ HasStructuredShape(s.result)
        /\ s.outcome.kind = "return"

\* C6: a client has issued as many requests as charge methods were called on
\* it (none by construction, one per call whatever its outcome), each a POST
\* to /v1/charges.
C6_OneRequestPerInvocation ==
    /\ \A c \in Clients : posts[c] = invocations[c]
    /\ \A c \in Clients : ~sdk[c].constructed => posts[c] = 0
    /\ \A m \in InFlight : m.request.method = "POST" /\ m.request.url = "/v1/charges"

\* A client was called twice; one call has ended in the generic error and
\* the other in a provider error or a success.
C6_Witness ==
    /\ \E c \in Clients : invocations[c] = 2 /\ posts[c] = 2
    /\ \E c \in Clients : sdk[c].constructed /\ invocations[c] = 0
    /\ \E s \in Settled : s.outcome.kind = "throw" /\ s.outcome.error.name = "Error"
    /\ \E s \in Settled : s.outcome.kind = "return"

\* C7 as stated: without a baseUrl the requests go to https://api.gupay.co,
\* with any baseUrl string they go to that string.
C7_AnyExplicitBaseUrlIsUsed ==
    \A m \in InFlight :
        LET given == config[m.client].baseUrl
        IN  /\ given.t = "undefined" => m.request.baseURL = "https://api.gupay.co"
            /\ given.t = "string" => m.request.baseURL = given.str

\* C7 amended: without a baseUrl, or with the empty string as baseUrl, the
\* requests go to https://api.gupay.co; with a non-empty baseUrl they go to it.
C7_NonEmptyBaseUrlIsUsed ==
    \A m \in InFlight :
        LET given == config[m.client].baseUrl
        IN  /\ given.t = "undefined" => m.request.baseURL = "https://api.gupay.co"
            /\ (given.t = "string" /\ given.str = "") =>
                   m.request.baseURL = "https://api.gupay.co"
            /\ (given.t = "string" /\ given.str # "") => m.request.baseURL = given.str

\* Requests of a client given a non-empty baseUrl and of a client given the
\* empty string are in flight.
C7_Witness ==
    /\ \E m \in InFlight :
           /\ config[m.client].baseUrl = JSString("https://sandbox.gupay.co")
           /\ m.request.baseURL = "https://sandbox.gupay.co"
    /\ \E m \in InFlight :
           /\ config[m.client].baseUrl = JSString("")
           /\ m.request.baseURL = "https://api.gupay.co"

\* C8: every request carries Authorization: Basic followed by the apiKey its
\* own client was constructed with, as given, and Content-Type:
\* application/json.
C8_RequestsCarryOwnCredential ==
    \A m \in InFlight :
        /\ {"Authorization", "Content-Type"} \subseteq DOMAIN m.request.headers
        /\ m.request.headers["Authorization"] = "Basic " \o config[m.client].apiKey
        /\ m.request.headers["Content-Type"] = "application/json"

\* Two clients with different credentials both have a request in flight.
C8_Witness ==
    \E m1 \in InFlight, m2 \in InFlight :
        /\ m1.client # m2.client
        /\ config[m1.client].apiKey # config[m2.client].apiKey
        /\ m1.request.headers["Authorization"] = "Basic sk_live_A"

\* C9: a finished call has exactly one of three outcomes: it returned a
\* value, it threw a GUPayAPIError, or it threw the generic error; and a call
\* whose request the transport has settled can always resume.
C9_ExactlyOneOutcome ==
    /\ \A s \in Settled :
          LET o == s.outcome
              returned == o.kind = "return" /\ DOMAIN o = {"kind", "value"}
              provider == /\ o.kind = "throw" /\ DOMAIN o = {"kind", "error"}
                          /\ o.error.name = "GUPayAPIError"
              generic == /\ o.kind = "throw" /\ DOMAIN o = {"kind", "error"}
                         /\ o.error.name = "Error"
                         /\ o.error.message = JSString(
                               "An unexpected error occurred while creating the charge")
          IN  Cardinality({b \in {<<1, returned>>, <<2, provider>>, <<3, generic>>} :
                              b[2]}) = 1
    /\ \A r \in BagToSet(ready) : ENABLED Resume(r)

\* Once constructed, a client and its configuration never change.
ConfigurationStable ==
    \A c \in Clients :
        sdk[c].constructed => (sdk'[c] = sdk[c] /\ config'[c] = config[c])

\* Every request in flight is made of its own call's arguments and its own
\* client's configuration alone.
RequestsAreOwn ==
    \A m \in InFlight :
        /\ \A k \in DOMAIN m.request.data :
              m.request.data[k] \in
                  {m.data[j] : j \in {k} \cap DOMAIN m.data}
                  \cup (IF k = "service_id" THEN {config[m.client].serviceId} ELSE {})
                  \cup (IF k = "type"
                        THEN {"truemoneywallet", "truemoneycashcard", "promptpay",
                              m.op.bankType}
                        ELSE {})
        /\ m.request.headers = sdk[m.client].client.headers
        /\ m.request.baseURL = sdk[m.client].client.baseURL

\* Every finished call's outcome comes from the result of its own request.
OutcomesAreOwn ==
    \A s \in Settled :
        LET body == Get(s.result.response, "data")
            inner == Get(body, "error")
        IN  /\ s.result.settle = "resolve" =>
                  s.outcome = [kind |-> "return", value |-> body]
            /\ s.result.settle = "reject" =>
                  /\ s.outcome.kind = "throw"
                  /\ s.outcome.error.name = "GUPayAPIError" =>
                        /\ s.result.isAxiosError /\ Truthy(inner)
                        /\ s.outcome.error.code = Get(inner, "code")
                        /\ s.outcome.error.type = Get(inner, "type")
                  /\ s.outcome.error.name = "Error" =>
                        ~(s.result.isAxiosError /\ Truthy(inner))
                  /\ s.outcome.error.name = "TypeError" =>
                        /\ s.result.isAxiosError /\ Truthy(inner)
                        /\ Get(inner, "message").t = "object"
                        /\ "toString" \in DOMAIN Get(inner, "message").props
                  /\ s.outcome.error.name \in {"GUPayAPIError", "Error", "TypeError"}

\* C10: with calls in flight concurrently and settled in any order, the
\* configuration of a constructed client never changes, each request is made
\* of its own call's arguments and that configuration, each outcome comes
\* from the result of the call's own request, and no call waits for another.
C10_CallsAreIndependent ==
    /\ [][ConfigurationStable]_vars
    /\ [](RequestsAreOwn /\ OutcomesAreOwn)
    /\ [](\A r \in BagToSet(ready) : ENABLED Resume(r))

\* Two calls ran concurrently and ended differently, the second one while a
\* result of another call was still waiting to be picked up or after it.
C10_Witness ==
    /\ \E c \in Clients : invocations[c] = 2
    /\ \E s \in Settled : s.outcome.kind = "return"
    /\ \E r \in BagToSet(ready) : r.settle = "reject"

====
